---- MODULE Spec2Model ----
(***************************************************************************)
(* Model of the token-aware chunking and audio stitching core of           *)
(* aparsoft_tts: TTSEngine (core/engine.py), combine_audio_segments        *)
(* (utils/audio.py) and the TTSConfig threshold fields (config.py).        *)
(*                                                                         *)
(* Texts are sequences of one-character strings.  Audio buffers are        *)
(* sequences of samples; a sample records where it came from and the gain  *)
(* that has been applied to it.  Durations are in milliseconds, so         *)
(* int(duration * sample_rate) is (ms * sample_rate) \div 1000.            *)
(***************************************************************************)
EXTENDS Integers, Sequences, FiniteSets, TLC

\* ------------------------------------------------------------------ bounds
MaxPieces == 6
MaxThreads == 2
MaxEnhanceLen == 8
MaxSegments == 3
MaxSegmentLen == 3
ModelSampleRate == 10
EngineSamples == 2

\* ------------------------------------------------------- text primitives
IsSpace(c) == c = " "

IsSentenceEnd(c) == c \in {".", "!", "?"}

IsClauseSep(c) == c \in {",", ";"}

RECURSIVE SkipSpaces(_, _)
SkipSpaces(s, i) ==
    IF i <= Len(s) /\ IsSpace(s[i]) THEN SkipSpaces(s, i + 1) ELSE i

RECURSIVE LStrip(_)
LStrip(s) == IF s # <<>> /\ IsSpace(Head(s)) THEN LStrip(Tail(s)) ELSE s

RECURSIVE RStrip(_)
RStrip(s) ==
    IF s # <<>> /\ IsSpace(s[Len(s)]) THEN RStrip(SubSeq(s, 1, Len(s) - 1)) ELSE s

\* str.strip()
Strip(s) == RStrip(LStrip(s))

\* re.split(r"(?<=[.!?])\s+", text)
RECURSIVE SplitSentencesFrom(_, _, _, _)
SplitSentencesFrom(s, i, cur, acc) ==
    IF i > Len(s) THEN Append(acc, cur)
    ELSE IF IsSpace(s[i]) /\ i > 1 /\ IsSentenceEnd(s[i - 1])
         THEN SplitSentencesFrom(s, SkipSpaces(s, i), <<>>, Append(acc, cur))
         ELSE SplitSentencesFrom(s, i + 1, Append(cur, s[i]), acc)

SplitSentences(s) == SplitSentencesFrom(s, 1, <<>>, <<>>)

\* re.split(r"[,;]\s+", sentence): the separator and the whitespace after it
\* are the match, so neither is part of any returned piece.
RECURSIVE SplitClausesFrom(_, _, _, _)
SplitClausesFrom(s, i, cur, acc) ==
    IF i > Len(s) THEN Append(acc, cur)
    ELSE IF IsClauseSep(s[i]) /\ i < Len(s) /\ IsSpace(s[i + 1])
         THEN SplitClausesFrom(s, SkipSpaces(s, i + 1), <<>>, Append(acc, cur))
         ELSE SplitClausesFrom(s, i + 1, Append(cur, s[i]), acc)

SplitClauses(s) == SplitClausesFrom(s, 1, <<>>, <<>>)

\* str.split(): whitespace runs separate the words, no empty word is returned
RECURSIVE SplitWordsFrom(_, _, _, _)
SplitWordsFrom(s, i, cur, acc) ==
    IF i > Len(s) THEN (IF cur = <<>> THEN acc ELSE Append(acc, cur))
    ELSE IF IsSpace(s[i])
         THEN SplitWordsFrom(s, i + 1, <<>>, IF cur = <<>> THEN acc ELSE Append(acc, cur))
         ELSE SplitWordsFrom(s, i + 1, Append(cur, s[i]), acc)

SplitWords(s) == SplitWordsFrom(s, 1, <<>>, <<>>)

\* " ".join(parts)
RECURSIVE JoinSpace(_)
JoinSpace(parts) ==
    IF parts = <<>> THEN <<>>
    ELSE IF Len(parts) = 1 THEN parts[1]
    ELSE parts[1] \o <<" ">> \o JoinSpace(Tail(parts))

\* the text with every whitespace character removed
RECURSIVE NoSpace(_)
NoSpace(s) ==
    IF s = <<>> THEN <<>>
    ELSE IF IsSpace(Head(s)) THEN NoSpace(Tail(s))
    ELSE <<Head(s)>> \o NoSpace(Tail(s))

RECURSIVE Flatten(_)
Flatten(ss) == IF ss = <<>> THEN <<>> ELSE Head(ss) \o Flatten(Tail(ss))

\* ------------------------------------------------------------- TTSConfig
\* Field(ge=..., le=...) ranges of the three token limits
TokenTargetMinLo == 20
TokenTargetMinHi == 500
TokenTargetMaxLo == 100
TokenTargetMaxHi == 400
TokenAbsoluteMaxLo == 250
TokenAbsoluteMaxHi == 510

\* the fixed threshold of the trailing-chunk rule
FinalMinTokens == 20

\* TTSConfig accepts a triple iff every field lies in its own range; there is
\* no validator relating the three fields to one another.
TTSConfigAccepts(tmin, tmax, tabs) ==
    /\ tmin >= TokenTargetMinLo /\ tmin <= TokenTargetMinHi
    /\ tmax >= TokenTargetMaxLo /\ tmax <= TokenTargetMaxHi
    /\ tabs >= TokenAbsoluteMaxLo /\ tabs <= TokenAbsoluteMaxHi

\* candidate (token_target_min, token_target_max, token_absolute_max) triples
\* handed to the TTSConfig constructor; the first is the default
CandidateTriples ==
    { <<100, 250, 450>>, <<20, 100, 250>>, <<100, 400, 250>>, <<10, 250, 450>> }

ThresholdTriples ==
    { t \in CandidateTriples : TTSConfigAccepts(t[1], t[2], t[3]) }

WellOrdered(cfg) ==
    /\ cfg.token_target_min <= cfg.token_target_max
    /\ cfg.token_target_max <= cfg.token_absolute_max

\* --------------------------------------------------------- token counter
\* Stand-in for the external G2P: the number of phoneme units of a text is
\* the sum of a per-character weight ("b" is a long word stem, "a" a short
\* one, punctuation and spaces are one unit each).
PhonemeWeight(c) ==
    CASE c = "a" -> 15
      [] c = "b" -> 240
      [] OTHER -> 1

RECURSIVE PhonemeCount(_)
PhonemeCount(s) ==
    IF s = <<>> THEN 0 ELSE PhonemeWeight(Head(s)) + PhonemeCount(Tail(s))

\* TTSEngine._count_tokens: len(ps) of pipeline.g2p(text), or len(text) // 4
\* when creating the pipeline or the G2P call raises.
CountTokens(s, g2pWorks) ==
    IF g2pWorks THEN PhonemeCount(s) ELSE Len(s) \div 4

\* ------------------------------------------------------- _chunk_text_smart
\* The chunker's locals: chunks, current_chunk, current_tokens.  chunk_tokens
\* is bookkeeping: for each emitted chunk, the sum of the counts of the
\* units placed in it.
EmptyChunker ==
    [chunks |-> <<>>, chunk_tokens |-> <<>>, current_chunk |-> <<>>, current_tokens |-> 0]

\* chunks.append(" ".join(current_chunk))
EmitCurrent(st) ==
    [st EXCEPT !.chunks = Append(@, JoinSpace(st.current_chunk)),
               !.chunk_tokens = Append(@, st.current_tokens)]

\* variant: the merged-back text is appended without the separating space
MergeIntoPrevious_NoSpace(st) ==
    [st EXCEPT !.chunks[Len(st.chunks)] = @ \o JoinSpace(st.current_chunk),
               !.chunk_tokens[Len(st.chunks)] = @ + st.current_tokens]

\* chunks[-1] += " " + " ".join(current_chunk)
MergeIntoPrevious(st) ==
    [st EXCEPT !.chunks[Len(st.chunks)] = @ \o <<" ">> \o JoinSpace(st.current_chunk),
               !.chunk_tokens[Len(st.chunks)] = @ + st.current_tokens]

\* lines 335-342 and 344-351: greedy packing of one word or clause
PackUnit(st, unit, unit_tokens, cfg) ==
    IF st.current_tokens + unit_tokens <= cfg.token_target_max
    THEN [st EXCEPT !.current_chunk = Append(@, unit),
                    !.current_tokens = @ + unit_tokens]
    ELSE LET flushed == IF st.current_chunk # <<>> THEN EmitCurrent(st) ELSE st
         IN  [flushed EXCEPT !.current_chunk = <<unit>>,
                             !.current_tokens = unit_tokens]

RECURSIVE PackWords(_, _, _, _)
PackWords(st, words, cfg, g2pWorks) ==
    IF words = <<>> THEN st
    ELSE PackWords(PackUnit(st, Head(words), CountTokens(Head(words), g2pWorks), cfg),
                   Tail(words), cfg, g2pWorks)

\* lines 323-351: the loop over the clauses of an oversized sentence
RECURSIVE PackParts(_, _, _, _)
PackParts(st, parts, cfg, g2pWorks) ==
    IF parts = <<>> THEN st
    ELSE LET part == Strip(Head(parts))
             part_tokens == CountTokens(part, g2pWorks)
             next == IF part = <<>> THEN st
                     ELSE IF part_tokens > cfg.token_absolute_max
                          THEN PackWords(st, SplitWords(part), cfg, g2pWorks)
                          ELSE PackUnit(st, part, part_tokens, cfg)
         IN  PackParts(next, Tail(parts), cfg, g2pWorks)

\* lines 313-352: a sentence above token_absolute_max
OversizedSentence(st, sentence, cfg, g2pWorks) ==
    LET flushed == IF st.current_chunk # <<>>
                   THEN [EmitCurrent(st) EXCEPT !.current_chunk = <<>>,
                                                !.current_tokens = 0]
                   ELSE st
    IN  PackParts(flushed, SplitClauses(sentence), cfg, g2pWorks)

\* lines 354-371: a sentence of at most token_absolute_max tokens
NormalSentence(st, sentence, sentence_tokens, cfg) ==
    IF st.current_tokens + sentence_tokens <= cfg.token_target_max
    THEN [st EXCEPT !.current_chunk = Append(@, sentence),
                    !.current_tokens = @ + sentence_tokens]
    ELSE LET saved ==
                 IF st.current_chunk = <<>> THEN st
                 ELSE IF st.current_tokens >= cfg.token_target_min \/ Len(st.chunks) = 0
                      THEN EmitCurrent(st)
                      ELSE IF st.chunks # <<>> THEN MergeIntoPrevious(st) ELSE st
         IN  [saved EXCEPT !.current_chunk = <<sentence>>,
                           !.current_tokens = sentence_tokens]

\* lines 306-371: one iteration of the loop over the sentences
SentenceStep(st, raw, cfg, g2pWorks) ==
    LET sentence == Strip(raw)
        sentence_tokens == CountTokens(sentence, g2pWorks)
    IN  IF sentence = <<>> THEN st
        ELSE IF sentence_tokens > cfg.token_absolute_max
             THEN OversizedSentence(st, sentence, cfg, g2pWorks)
             ELSE NormalSentence(st, sentence, sentence_tokens, cfg)

\* variant: the trailing chunk is measured against the default
\* token_target_min, 100
FinalStep_TargetMin(st) ==
    IF st.current_chunk = <<>> THEN st
    ELSE IF st.current_tokens >= 100 \/ Len(st.chunks) = 0
         THEN EmitCurrent(st)
         ELSE IF st.chunks # <<>> THEN MergeIntoPrevious(st) ELSE st

\* lines 373-381: the trailing chunk
FinalStep(st) ==
    IF st.current_chunk = <<>> THEN st
    ELSE IF st.current_tokens >= FinalMinTokens \/ Len(st.chunks) = 0
         THEN EmitCurrent(st)
         ELSE IF st.chunks # <<>> THEN MergeIntoPrevious(st) ELSE st

RECURSIVE ChunkLoop(_, _, _, _)
ChunkLoop(st, sents, cfg, g2pWorks) ==
    IF sents = <<>> THEN st
    ELSE ChunkLoop(SentenceStep(st, Head(sents), cfg, g2pWorks), Tail(sents), cfg, g2pWorks)

\* the whole call: the record after the final step; .chunks is the return value
ChunkTextSmart(s, cfg, g2pWorks) ==
    FinalStep(ChunkLoop(EmptyChunker, SplitSentences(s), cfg, g2pWorks))

\* ------------------------------------------------------------ audio buffers
\* A sample remembers the segment and position it came from, the gain
\* num/den applied to it so far and whether enhance_audio has processed it;
\* a sample of an np.zeros gap has gain 0.
Sample(seg, pos) == [seg |-> seg, pos |-> pos, num |-> 1, den |-> 1, enhanced |-> FALSE]

Silence == [seg |-> 0, pos |-> 0, num |-> 0, den |-> 1, enhanced |-> FALSE]

Buffer(seg, n) == [j \in 1..n |-> Sample(seg, j)]

\* int(duration * sample_rate), the duration given in milliseconds
ToSamples(ms, rate) == (ms * rate) \div 1000

\* np.linspace(1, 0, n)[k] and np.linspace(0, 1, n)[k], k = 0..n-1
LinspaceDown(n, k) == IF n = 1 THEN <<1, 1>> ELSE <<n - 1 - k, n - 1>>

LinspaceUp(n, k) == IF n = 1 THEN <<0, 1>> ELSE <<k, n - 1>>

\* what a call hands back: an array, a path, or an exception
Returns(audio) == [ok |-> TRUE, error |-> "", audio |-> audio, path |-> ""]

ReturnsPath(path) == [ok |-> TRUE, error |-> "", audio |-> <<>>, path |-> path]

Raises(error) == [ok |-> FALSE, error |-> error, audio |-> <<>>, path |-> ""]

\* segment[lo..hi] *= ramp, ramp an array of n factors: numpy raises unless
\* the slice has n elements or the ramp has exactly one element.
MulSlice(segment, lo, hi, n, down) ==
    IF (hi - lo + 1) # n /\ n # 1
    THEN Raises("ValueError")
    ELSE Returns([j \in 1..Len(segment) |->
                    IF j >= lo /\ j <= hi
                    THEN LET f == IF down THEN LinspaceDown(n, j - lo) ELSE LinspaceUp(n, j - lo)
                         IN  [segment[j] EXCEPT !.num = @ * f[1], !.den = @ * f[2]]
                    ELSE segment[j]])

\* audio.py lines 201-214: the per-segment fades.  segment[-crossfade_samples:]
\* is the whole segment when crossfade_samples is 0.
FadeSegment(segment, crossfade_samples) ==
    IF Len(segment) > crossfade_samples
    THEN LET lo == IF crossfade_samples = 0 THEN 1
                   ELSE Len(segment) - crossfade_samples + 1
             faded_out == MulSlice(segment, lo, Len(segment), crossfade_samples, TRUE)
         IN  IF ~faded_out.ok THEN faded_out
             ELSE MulSlice(faded_out.audio, 1, crossfade_samples, crossfade_samples, FALSE)
    ELSE Returns(segment)

\* audio.py lines 216-225: segment, gap, segment, ..., no gap after the last
RECURSIVE Interleave(_, _)
Interleave(segs, gap) ==
    IF segs = <<>> THEN <<>>
    ELSE IF Len(segs) = 1 THEN segs[1]
    ELSE segs[1] \o gap \o Interleave(Tail(segs), gap)

\* variant: an empty list is answered with an empty array
CombineAudioSegments_EmptyOk(segments, sample_rate, gap_duration, crossfade_duration) ==
    IF segments = <<>> THEN Returns(<<>>)
    ELSE LET crossfade_samples == ToSamples(crossfade_duration, sample_rate)
             processed == [i \in 1..Len(segments) |->
                              FadeSegment(segments[i], crossfade_samples)]
             gap == [j \in 1..ToSamples(gap_duration, sample_rate) |-> Silence]
         IN  IF \E i \in 1..Len(segments) : ~processed[i].ok
             THEN Raises("AudioProcessingError")
             ELSE Returns(Interleave([i \in 1..Len(segments) |-> processed[i].audio], gap))

\* audio.py lines 191-231.  Every exception, the explicit one for an empty
\* list included, leaves as AudioProcessingError.
CombineAudioSegments(segments, sample_rate, gap_duration, crossfade_duration) ==
    IF segments = <<>> THEN Raises("AudioProcessingError")
    ELSE LET crossfade_samples == ToSamples(crossfade_duration, sample_rate)
             processed == [i \in 1..Len(segments) |->
                              FadeSegment(segments[i], crossfade_samples)]
             gap == [j \in 1..ToSamples(gap_duration, sample_rate) |-> Silence]
         IN  IF \E i \in 1..Len(segments) : ~processed[i].ok
             THEN Raises("AudioProcessingError")
             ELSE Returns(Interleave([i \in 1..Len(segments) |-> processed[i].audio], gap))

\* ------------------------------------------------------------ enhance_audio
Min(a, b) == IF a <= b THEN a ELSE b

\* the end margin of the trim stage, 0.1 s, in milliseconds
TrimMargin == 100

\* a new array computed by librosa from the samples of audio (normalize,
\* istft): same length, other values
Processed(audio) == [j \in 1..Len(audio) |-> [audio[j] EXCEPT !.enhanced = TRUE]]

\* _apply_fade, in place on audio
ApplyFade(audio, sample_rate, fade_duration) ==
    LET fade_samples == Min(ToSamples(fade_duration, sample_rate), Len(audio) \div 4)
        faded_in == MulSlice(audio, 1, fade_samples, fade_samples, FALSE)
        lo == IF fade_samples = 0 THEN 1 ELSE Len(audio) - fade_samples + 1
    IN  IF ~faded_in.ok THEN faded_in
        ELSE MulSlice(faded_in.audio, lo, Len(audio), fade_samples, TRUE)

\* what librosa.effects.trim can answer for n samples: (0, 0) when it finds
\* no sound, otherwise start < end <= n
TrimIndices(n) ==
    { <<0, 0>> } \cup { ab \in (0..n) \X (0..n) : ab[1] < ab[2] }

\* the stages that call into librosa and can raise there
LibrosaStages(c) ==
    { "none" } \cup (IF c.normalize THEN {"normalize"} ELSE {})
               \cup (IF c.trim_silence THEN {"trim"} ELSE {})
               \cup (IF c.noise_reduction THEN {"noise_reduction"} ELSE {})

\* the caller's array after a[off+1 .. off+Len(part)] was written through a view
WriteThrough(a, off, part) ==
    [j \in 1..Len(a) |-> IF j > off /\ j <= off + Len(part) THEN part[j - off] ELSE a[j]]

\* enhance_audio(c.audio, ...) when librosa.effects.trim answers trim and the
\* stage failing (or "none") raises.  The local name audio is the caller's
\* array or a slice view of it (shared) until normalize or noise reduction
\* rebinds it to a new array; _apply_fade then writes into whatever it is
\* bound to.  The answer carries the returned array and the caller's array
\* as the call leaves it.
EnhanceAudio(c, trim, failing) ==
    LET s0 == [buf |-> c.audio, shared |-> TRUE, off |-> 0]
        s1 == IF c.normalize
              THEN [buf |-> Processed(s0.buf), shared |-> FALSE, off |-> 0] ELSE s0
        s2 == IF c.trim_silence
              THEN [buf |-> SubSeq(s1.buf, trim[1] + 1,
                                   Min(trim[2] + ToSamples(TrimMargin, c.sample_rate),
                                       Len(s1.buf))),
                    shared |-> s1.shared, off |-> s1.off + trim[1]]
              ELSE s1
        s3 == IF c.noise_reduction
              THEN [buf |-> Processed(s2.buf), shared |-> FALSE, off |-> 0] ELSE s2
        faded == ApplyFade(s3.buf, c.sample_rate, c.fade_duration)
    IN  IF failing # "none"
        THEN [ok |-> FALSE, error |-> "AudioProcessingError", audio |-> <<>>,
              input |-> c.audio]
        ELSE IF ~c.add_fade
        THEN [ok |-> TRUE, error |-> "", audio |-> s3.buf, input |-> c.audio]
        ELSE IF ~faded.ok
        THEN [ok |-> FALSE, error |-> "AudioProcessingError", audio |-> <<>>,
              input |-> c.audio]
        ELSE [ok |-> TRUE, error |-> "", audio |-> faded.audio,
              input |-> IF s3.shared THEN WriteThrough(c.audio, s3.off, faded.audio)
                        ELSE c.audio]

\* ----------------------------------------------------------------- inputs
\* Texts are built from at most MaxPieces pieces: a short word stem, a long
\* word stem, a space, a sentence end and a clause separator.
Pieces == { <<"a">>, <<"b">>, <<" ">>, <<".", " ">>, <<",", " ">> }

Texts ==
    { Flatten(ps) : ps \in UNION { [1..n -> Pieces] : n \in 0..MaxPieces } }

\* a TTSConfig: the three token limits and the fields generate reads.
\* Durations are in milliseconds, speeds in hundredths.
MkConfig(t, voice, enhance) ==
    [token_target_min |-> t[1], token_target_max |-> t[2], token_absolute_max |-> t[3],
     voice |-> voice, speed |-> 100, enhance_audio |-> enhance,
     sample_rate |-> ModelSampleRate, chunk_gap_duration |-> 200]

DefaultConfig == MkConfig(<<100, 250, 450>>, "am_michael", TRUE)

\* inputs of combine_audio_segments: up to MaxSegments segments of up to
\* MaxSegmentLen samples, gap and crossfade durations in milliseconds
SegmentLists ==
    UNION { { [i \in 1..n |-> Buffer(i, lens[i])] : lens \in [1..n -> 0..MaxSegmentLen] }
            : n \in 0..MaxSegments }

CombineCalls ==
    [segments : SegmentLists, sample_rate : {ModelSampleRate},
     gap_duration : {0, 100, 250}, crossfade_duration : {0, 100, 200}]

\* test_audio's rate and segment length, spec scenario 3
ScenarioCall ==
    [segments |-> <<Buffer(1, 1000), Buffer(2, 1000)>>, sample_rate |-> 24000,
     gap_duration |-> 100, crossfade_duration |-> 100]

NoCombineCall ==
    [segments |-> <<>>, sample_rate |-> ModelSampleRate,
     gap_duration |-> 0, crossfade_duration |-> 0]

Pending == [ok |-> FALSE, error |-> "pending", audio |-> <<>>, path |-> ""]

\* the voice table of engine.py
MALE_VOICES == {"am_adam", "am_michael", "bm_george", "bm_lewis"}

FEMALE_VOICES ==
    {"af_bella", "af_nicole", "af_sarah", "af_sky", "bf_emma", "bf_isabella"}

SPECIAL_VOICES == {"af"}

HINDI_MALE_VOICES == {"hm_omega", "hm_psi"}

HINDI_FEMALE_VOICES == {"hf_alpha", "hf_beta"}

ALL_VOICES ==
    MALE_VOICES \cup FEMALE_VOICES \cup SPECIAL_VOICES
        \cup HINDI_MALE_VOICES \cup HINDI_FEMALE_VOICES

\* get_lang_code_from_voice on the voices of the model: the am_/af_, bm_/bf_
\* and hm_/hf_ prefixes, then the first-letter fallback ("af" gives "a", a
\* name starting with no language letter gives "a").
get_lang_code_from_voice(voice) ==
    CASE voice \in {"am_adam", "am_michael", "af_bella", "af_nicole", "af_sarah", "af_sky"} -> "a"
      [] voice \in {"bm_george", "bm_lewis", "bf_emma", "bf_isabella"} -> "b"
      [] voice \in HINDI_MALE_VOICES \cup HINDI_FEMALE_VOICES -> "h"
      [] OTHER -> "a"

\* arguments a caller passes to generate and process_script
EngineTexts ==
    { <<"a", " ", "a">>, <<"a", ".", " ", "b">>,
      <<"b", ".", " ", "a", ".", " ", "b">>, <<>> }

ConfigVoices == {"am_michael", "bf_emma"}

\* "" stands for voice=None
RequestVoices == {"", "bf_emma", "xx_unknown"}

\* speed=None, speed=2.0, speed=2.01 (hundredths)
RequestSpeeds ==
    { [given |-> FALSE, value |-> 0], [given |-> TRUE, value |-> 200],
      [given |-> TRUE, value |-> 201] }

RequestEnhance == {"none", "true", "false"}

\* "" stands for output_path=None
RequestPaths == {"", "out.wav"}

\* the environment: which G2P backends raise, which KPipeline constructors raise
Envs == { <<{}, {}>>, <<{"a"}, {}>>, <<{}, {"b"}>> }

NoGen ==
    [pc |-> "idle", text |-> <<>>, voice |-> "", speed |-> [given |-> FALSE, value |-> 0],
     enhance |-> "none", output_path |-> "", chunked |-> FALSE, todo |-> <<>>,
     audio_chunks |-> <<>>, synth_calls |-> <<>>, assembled |-> <<>>, out |-> Pending,
     at_call |-> [pipelines |-> {}, files |-> {}, nevents |-> 0]]

NoScript ==
    [pc |-> "idle", text |-> <<>>, chunks |-> <<>>, audio_segments |-> <<>>,
     output_path |-> "", voice |-> "", speed |-> [given |-> FALSE, value |-> 0],
     gap_duration |-> 500, out |-> Pending]

\* what _count_tokens hands back: an integer, or an exception
Counted(n) == [ok |-> TRUE, error |-> "", value |-> n]

CountRaises(error) == [ok |-> FALSE, error |-> error, value |-> 0]

NoCall ==
    [op |-> "none", files0 |-> {}, text |-> <<>>, lang |-> "",
     count |-> CountRaises("pending")]

\* the language codes get_lang_code_from_voice can return
LangCodes == {"a", "b", "h"}

\* no KPipeline has been constructed, self._pipelines is empty
NoneBuilt == [l \in LangCodes |-> 0]

\* the frame of a generate_stream generator that has not been created
NoStream ==
    [pc |-> "idle", text |-> <<>>, voice |-> "", speed |-> [given |-> FALSE, value |-> 0],
     chunked |-> FALSE, todo |-> <<>>, synth_calls |-> <<>>, yielded |-> <<>>, out |-> Pending]

NoBatch ==
    [pc |-> "idle", texts |-> <<>>, voice |-> "", speed |-> [given |-> FALSE, value |-> 0],
     paths |-> <<>>, out |-> [ok |-> FALSE, error |-> "pending", paths |-> <<>>]]

NoThreads == <<>>

\* the texts argument of batch_generate
BatchTexts ==
    { <<>>, << <<"a", " ", "a">> >>, << <<"a", " ", "a">>, <<"a", ".", " ", "b">> >> }

\* output_dir / f"{filename_prefix}_{i:03d}.{output_format}"
BatchFile(i) == <<"audio_001.wav", "audio_002.wav">>[i]

NoEnhanceCall ==
    [audio |-> <<>>, sample_rate |-> ModelSampleRate, normalize |-> FALSE,
     trim_silence |-> FALSE, add_fade |-> FALSE, fade_duration |-> 0,
     noise_reduction |-> FALSE]

EnhancePending == [ok |-> FALSE, error |-> "pending", audio |-> <<>>, input |-> <<>>]

\* inputs of enhance_audio: a float32 buffer of up to MaxEnhanceLen samples,
\* every combination of the stage toggles, fade durations in milliseconds
EnhanceInputs ==
    [audio : { Buffer(1, n) : n \in 0..MaxEnhanceLen }, sample_rate : {ModelSampleRate},
     normalize : BOOLEAN, trim_silence : BOOLEAN, add_fade : BOOLEAN,
     fade_duration : {0, 100, 200}, noise_reduction : BOOLEAN]

\* ------------------------------------------------------------------ state
VARIABLES
    text,            \* the text argument of _chunk_text_smart
    config,          \* self.config
    g2p_broken,      \* language codes whose pipeline.g2p raises
    sentences,       \* the sentences the loop has still to visit
    chunker,         \* the locals chunks, current_chunk, current_tokens
    cpc,             \* position in _chunk_text_smart: idle, start, loop, done
    combine_call,    \* the arguments of a combine_audio_segments call
    combine_result,  \* what the call returned or raised; Pending before
    engine,          \* unbuilt, ready, config_rejected or load_failed
    kp_broken,       \* language codes whose KPipeline constructor raises
    pipelines,       \* the keys of self._pipelines
    files,           \* the paths save_audio has written
    call,            \* the public method a caller is in, and files at its start
    gen,             \* the frame of the running TTSEngine.generate call
    script,          \* the frame of the running TTSEngine.process_script call
    events,          \* the calls the request has made to its collaborators
    kp_built,        \* per language code, how many KPipeline objects were constructed
    kp_cached,       \* per language code, which of them self._pipelines holds (0: none)
    stream,          \* the frame of the running TTSEngine.generate_stream generator
    batch,           \* the frame of the running TTSEngine.batch_generate call
    threads,         \* the callers running _get_pipeline concurrently
    enhance_call,    \* the arguments of an enhance_audio call
    enhance_result   \* what the call returned or raised, and the caller's buffer after it

chunkVars == <<text, sentences, chunker, cpc>>

combineVars == <<combine_call, combine_result>>

envVars == <<config, g2p_broken>>

engineVars ==
    <<engine, kp_broken, pipelines, files, call, gen, script, events,
      kp_built, kp_cached, stream, batch>>

enhanceVars == <<enhance_call, enhance_result>>

\* self._pipelines and the record of the KPipeline objects constructed
cacheVars == <<pipelines, kp_built, kp_cached>>

\* everything TTSEngine's methods leave alone
outsideEngine == <<threads, enhanceVars, chunkVars, combineVars>>

vars == <<chunkVars, combineVars, envVars, engineVars, threads, enhanceVars>>

\* ------------------------------------------- _chunk_text_smart, step by step
G2PWorks(lang) == lang \notin g2p_broken

InitChunk ==
    /\ text \in Texts
    /\ config \in { MkConfig(t, "am_michael", TRUE) : t \in ThresholdTriples }
    /\ g2p_broken \in { {}, {"a"} }
    /\ sentences = <<>>
    /\ chunker = EmptyChunker
    /\ cpc = "start"
    /\ combine_call = NoCombineCall
    /\ combine_result = Pending
    /\ engine = "unbuilt"
    /\ kp_broken = {}
    /\ pipelines = {}
    /\ files = {}
    /\ call = NoCall
    /\ gen = NoGen
    /\ script = NoScript
    /\ events = <<>>
    /\ kp_built = NoneBuilt
    /\ kp_cached = NoneBuilt
    /\ stream = NoStream
    /\ batch = NoBatch
    /\ threads = NoThreads
    /\ enhance_call = NoEnhanceCall
    /\ enhance_result = EnhancePending

\* lines 294-304
ChunkStart ==
    /\ cpc = "start"
    /\ sentences' = SplitSentences(text)
    /\ chunker' = EmptyChunker
    /\ cpc' = "loop"
    /\ UNCHANGED <<threads, enhanceVars, text, combineVars, envVars, engineVars>>

\* variant: a blank sentence is handled like any other sentence
SkipBlankSentence_Keeps ==
    /\ cpc = "loop" /\ sentences # <<>>
    /\ Strip(Head(sentences)) = <<>>
    /\ chunker' = NormalSentence(chunker, <<>>, 0, config)
    /\ sentences' = Tail(sentences)
    /\ UNCHANGED <<threads, enhanceVars, text, cpc, combineVars, envVars, engineVars>>

\* lines 307-309: an empty or whitespace-only sentence is skipped
SkipBlankSentence ==
    /\ cpc = "loop" /\ sentences # <<>>
    /\ Strip(Head(sentences)) = <<>>
    /\ sentences' = Tail(sentences)
    /\ UNCHANGED <<threads, enhanceVars, text, chunker, cpc, combineVars, envVars,
                   engineVars>>

\* lines 313-352
SplitOversizedSentence ==
    /\ cpc = "loop" /\ sentences # <<>>
    /\ LET sentence == Strip(Head(sentences))
       IN  /\ sentence # <<>>
           /\ CountTokens(sentence, G2PWorks("a")) > config.token_absolute_max
           /\ chunker' = OversizedSentence(chunker, sentence, config, G2PWorks("a"))
    /\ sentences' = Tail(sentences)
    /\ UNCHANGED <<threads, enhanceVars, text, cpc, combineVars, envVars, engineVars>>

\* lines 354-371
AddNormalSentence ==
    /\ cpc = "loop" /\ sentences # <<>>
    /\ LET sentence == Strip(Head(sentences))
           sentence_tokens == CountTokens(sentence, G2PWorks("a"))
       IN  /\ sentence # <<>>
           /\ sentence_tokens <= config.token_absolute_max
           /\ chunker' = NormalSentence(chunker, sentence, sentence_tokens, config)
    /\ sentences' = Tail(sentences)
    /\ UNCHANGED <<threads, enhanceVars, text, cpc, combineVars, envVars, engineVars>>

\* lines 373-383
FinishChunks ==
    /\ cpc = "loop" /\ sentences = <<>>
    /\ chunker' = FinalStep(chunker)
    /\ cpc' = "done"
    /\ UNCHANGED <<threads, enhanceVars, text, sentences, combineVars, envVars, engineVars>>

NextChunk ==
    \/ ChunkStart
    \/ SkipBlankSentence
    \/ SplitOversizedSentence
    \/ AddNormalSentence
    \/ FinishChunks

SpecChunk == InitChunk /\ [][NextChunk]_vars

\* ------------------------------------------------- combine_audio_segments
InitCombine ==
    /\ combine_call \in CombineCalls \cup {ScenarioCall}
    /\ combine_result = Pending
    /\ text = <<>>
    /\ config = DefaultConfig
    /\ g2p_broken = {}
    /\ sentences = <<>>
    /\ chunker = EmptyChunker
    /\ cpc = "idle"
    /\ engine = "unbuilt"
    /\ kp_broken = {}
    /\ pipelines = {}
    /\ files = {}
    /\ call = NoCall
    /\ gen = NoGen
    /\ script = NoScript
    /\ events = <<>>
    /\ kp_built = NoneBuilt
    /\ kp_cached = NoneBuilt
    /\ stream = NoStream
    /\ batch = NoBatch
    /\ threads = NoThreads
    /\ enhance_call = NoEnhanceCall
    /\ enhance_result = EnhancePending

CombineOutcome ==
    CombineAudioSegments(combine_call.segments, combine_call.sample_rate,
                         combine_call.gap_duration, combine_call.crossfade_duration)

\* the call returns the combined array (line 227)
CombineReturns ==
    /\ combine_result = Pending
    /\ CombineOutcome.ok
    /\ combine_result' = CombineOutcome
    /\ UNCHANGED <<threads, enhanceVars, combine_call, chunkVars, envVars, engineVars>>

\* the call raises (lines 229-231)
CombineRaises ==
    /\ combine_result = Pending
    /\ ~CombineOutcome.ok
    /\ combine_result' = CombineOutcome
    /\ UNCHANGED <<threads, enhanceVars, combine_call, chunkVars, envVars, engineVars>>

NextCombine == CombineReturns \/ CombineRaises

SpecCombine == InitCombine /\ [][NextCombine]_vars

\* ------------------------------------------------------------- TTSEngine
\* the default crossfade_duration of combine_audio_segments, in milliseconds
DefaultCrossfade == 100

Ev(op, by, lang, t) == [op |-> op, by |-> by, lang |-> lang, text |-> t]

\* TTSEngine._get_pipeline: the cached instance, or a new KPipeline
GetPipeline(lang, pipes) ==
    IF lang \in pipes THEN [ok |-> TRUE, pipelines |-> pipes]
    ELSE IF lang \in kp_broken THEN [ok |-> FALSE, pipelines |-> pipes]
    ELSE [ok |-> TRUE, pipelines |-> pipes \cup {lang}]

\* self._pipelines together with the record of the constructed KPipeline
\* objects: the n-th object constructed for a language has number n
Cache == [pipelines |-> pipelines, built |-> kp_built, cached |-> kp_cached]

\* variant: _get_pipeline constructs a KPipeline on every request
GetPipelineIn_Rebuild(lang, c) ==
    IF lang \in kp_broken THEN c
    ELSE [pipelines |-> c.pipelines \cup {lang},
          built |-> [c.built EXCEPT ![lang] = IF @ < 3 THEN @ + 1 ELSE @],
          cached |-> [c.cached EXCEPT ![lang] = IF c.built[lang] < 3
                                                THEN c.built[lang] + 1 ELSE @]]

\* lines 214-217 on the cache c: a cached language is answered from the
\* dict; otherwise KPipeline(...) is constructed and stored, unless the
\* constructor raises
GetPipelineIn(lang, c) ==
    IF lang \in c.pipelines THEN c
    ELSE IF lang \in kp_broken THEN c
    ELSE [pipelines |-> c.pipelines \cup {lang},
          built |-> [c.built EXCEPT ![lang] = @ + 1],
          cached |-> [c.cached EXCEPT ![lang] = c.built[lang] + 1]]

\* the constructor call _get_pipeline makes for a language not yet cached
PipelineEvents(lang, pipes, by) ==
    IF lang \in pipes THEN <<>> ELSE <<Ev("KPipeline", by, lang, <<>>)>>

\* the collaborator calls of _count_tokens(t, lang)
CountEvents(lang, pipes, by, t) ==
    PipelineEvents(lang, pipes, by)
        \o (IF GetPipeline(lang, pipes).ok THEN <<Ev("g2p", by, lang, t)>> ELSE <<>>)

\* lines 237-249, the try block of _count_tokens: _get_pipeline may raise,
\* pipeline.g2p may raise, otherwise len(ps), 0 for an empty ps
CountTokensTry(t, lang, pipes) ==
    IF ~GetPipeline(lang, pipes).ok THEN CountRaises("ModelLoadError")
    ELSE IF ~G2PWorks(lang) THEN CountRaises("G2PError")
    ELSE Counted(PhonemeCount(t))

\* variant: the failure of the try block reaches the caller
CountTokensOutcome_Propagates(t, lang, pipes) == CountTokensTry(t, lang, pipes)

\* lines 236-255: except Exception answers with len(text) // 4
CountTokensOutcome(t, lang, pipes) ==
    IF CountTokensTry(t, lang, pipes).ok THEN CountTokensTry(t, lang, pipes)
    ELSE Counted(Len(t) \div 4)

\* whether _count_tokens(., lang) gets a G2P answer or falls back
CountWorks(lang, pipes) == GetPipeline(lang, pipes).ok /\ G2PWorks(lang)

\* variant: the branch compares with the hard limit
NeedsChunking_AbsoluteMax(token_count, cfg) == token_count > cfg.token_absolute_max

\* line 456
NeedsChunking(token_count, cfg) == token_count > cfg.token_target_max

\* lines 532-536: what generate's try block lets out
GenerateExcept(error) ==
    IF error \in {"InvalidVoiceError", "InvalidParameterError"} THEN error
    ELSE "TTSGenerationError"

\* enhance_audio as generate sees it: every sample has been processed
Enhanced(audio) == [j \in 1..Len(audio) |-> [audio[j] EXCEPT !.enhanced = TRUE]]

InitEngine ==
    /\ engine = "unbuilt"
    /\ config = DefaultConfig
    /\ \E env \in Envs : g2p_broken = env[1] /\ kp_broken = env[2]
    /\ pipelines = {}
    /\ files = {}
    /\ call = NoCall
    /\ gen = NoGen
    /\ script = NoScript
    /\ events = <<>>
    /\ kp_built = NoneBuilt
    /\ kp_cached = NoneBuilt
    /\ stream = NoStream
    /\ batch = NoBatch
    /\ threads = NoThreads
    /\ enhance_call = NoEnhanceCall
    /\ enhance_result = EnhancePending
    /\ text = <<>>
    /\ sentences = <<>>
    /\ chunker = EmptyChunker
    /\ cpc = "idle"
    /\ combine_call = NoCombineCall
    /\ combine_result = Pending

\* TTSConfig(...) with a token limit outside its Field range: pydantic raises
BuildConfigRejected ==
    /\ engine = "unbuilt"
    /\ \E t \in CandidateTriples : ~TTSConfigAccepts(t[1], t[2], t[3])
    /\ engine' = "config_rejected"
    /\ UNCHANGED <<outsideEngine, stream, batch, envVars, kp_broken, cacheVars, files,
                   call, gen, script, events>>

\* TTSConfig(...) accepted, then TTSEngine.__init__ (lines 182-198)
BuildEngine ==
    /\ engine = "unbuilt"
    /\ \E t \in CandidateTriples, voice \in ConfigVoices, enhance \in BOOLEAN :
          /\ TTSConfigAccepts(t[1], t[2], t[3])
          /\ GetPipeline(get_lang_code_from_voice(voice), {}).ok
          /\ config' = MkConfig(t, voice, enhance)
          /\ LET c == GetPipelineIn(get_lang_code_from_voice(voice), Cache)
             IN  /\ pipelines' = c.pipelines
                 /\ kp_built' = c.built
                 /\ kp_cached' = c.cached
    /\ engine' = "ready"
    /\ UNCHANGED <<outsideEngine, stream, batch, g2p_broken, kp_broken, files, call, gen,
                   script, events>>

\* TTSEngine.__init__ when the KPipeline constructor raises (lines 199-201)
BuildEngineFails ==
    /\ engine = "unbuilt"
    /\ \E t \in CandidateTriples, voice \in ConfigVoices, enhance \in BOOLEAN :
          /\ TTSConfigAccepts(t[1], t[2], t[3])
          /\ ~GetPipeline(get_lang_code_from_voice(voice), {}).ok
          /\ config' = MkConfig(t, voice, enhance)
    /\ engine' = "load_failed"
    /\ UNCHANGED <<outsideEngine, stream, batch, g2p_broken, kp_broken, cacheVars, files,
                   call, gen, script, events>>

RequestDone ==
    \/ call.op = "_count_tokens"
    \/ call.op = "generate_stream" /\ stream.pc \in {"returned", "raised"}
    \/ call.op = "batch_generate" /\ batch.pc \in {"returned", "raised"}
    \/ call.op = "generate" /\ gen.pc \in {"returned", "raised"}
    \/ call.op = "process_script" /\ script.pc \in {"returned", "raised"}

Result == IF call.op = "process_script" THEN script.out ELSE gen.out

Idle == engine = "ready" /\ call.op = "none"

\* the frame of a generate call that has just been entered
Called(t, voice, speed, enhance, output_path, nevents) ==
    [NoGen EXCEPT !.pc = "called", !.text = t, !.voice = voice, !.speed = speed,
                  !.enhance = enhance, !.output_path = output_path,
                  !.at_call = [pipelines |-> pipelines, files |-> files,
                               nevents |-> nevents]]

\* a caller enters generate(text, output_path, voice, speed, enhance)
CallGenerate ==
    /\ Idle
    /\ \E t \in EngineTexts, voice \in RequestVoices, speed \in RequestSpeeds,
          enhance \in RequestEnhance, output_path \in RequestPaths :
          gen' = Called(t, voice, speed, enhance, output_path, 0)
    /\ call' = [NoCall EXCEPT !.op = "generate", !.files0 = files]
    /\ script' = NoScript
    /\ events' = <<>>
    /\ UNCHANGED <<outsideEngine, stream, batch, envVars, engine, kp_broken, cacheVars,
                   files>>

\* lines 424, 430, 434: the arguments after the config defaults are applied
GenVoice == IF gen.voice = "" THEN config.voice ELSE gen.voice

GenSpeed == IF gen.speed.given THEN gen.speed.value ELSE config.speed

GenEnhance == IF gen.enhance = "none" THEN config.enhance_audio ELSE gen.enhance = "true"

SpeedInRange(speed) == 50 <= speed /\ speed <= 200

\* lines 425-428
GenerateRejectVoice ==
    /\ gen.pc = "called"
    /\ GenVoice \notin ALL_VOICES
    /\ gen' = [gen EXCEPT !.pc = "raised", !.out = Raises("InvalidVoiceError")]
    /\ UNCHANGED <<outsideEngine, stream, batch, envVars, engine, kp_broken, cacheVars,
                   files, call, script, events>>

\* variant: the speed is checked after the pipeline has been fetched
GenerateRejectSpeed_AfterPipeline ==
    /\ gen.pc = "called"
    /\ GenVoice \in ALL_VOICES
    /\ ~SpeedInRange(GenSpeed)
    /\ gen' = [gen EXCEPT !.pc = "raised", !.out = Raises("InvalidParameterError")]
    /\ LET c == GetPipelineIn(get_lang_code_from_voice(GenVoice), Cache)
       IN  /\ pipelines' = c.pipelines
           /\ kp_built' = c.built
           /\ kp_cached' = c.cached
    /\ events' = events
           \o PipelineEvents(get_lang_code_from_voice(GenVoice), pipelines, "generate")
    /\ UNCHANGED <<outsideEngine, stream, batch, envVars, engine, kp_broken, files, call,
                   script>>

\* lines 430-432
GenerateRejectSpeed ==
    /\ gen.pc = "called"
    /\ GenVoice \in ALL_VOICES
    /\ ~SpeedInRange(GenSpeed)
    /\ gen' = [gen EXCEPT !.pc = "raised", !.out = Raises("InvalidParameterError")]
    /\ UNCHANGED <<outsideEngine, stream, batch, envVars, engine, kp_broken, cacheVars,
                   files, call, script, events>>

GenValid == GenVoice \in ALL_VOICES /\ SpeedInRange(GenSpeed)

GenLang == get_lang_code_from_voice(GenVoice)

\* lines 436-441 when the KPipeline constructor raises: the except clause
\* turns it into TTSGenerationError
GenerateBeginFails ==
    /\ gen.pc = "called"
    /\ GenValid
    /\ ~GetPipeline(GenLang, pipelines).ok
    /\ gen' = [gen EXCEPT !.pc = "raised",
                          !.out = Raises(GenerateExcept("ModelLoadError"))]
    /\ events' = events \o PipelineEvents(GenLang, pipelines, "generate")
    /\ UNCHANGED <<outsideEngine, stream, batch, envVars, engine, kp_broken, cacheVars,
                   files, call, script>>

\* lines 436-463: pipeline, token count, and the choice between direct
\* synthesis and chunking.  The chunker counts with the default language "a".
GenerateBegin ==
    /\ gen.pc = "called"
    /\ GenValid
    /\ GetPipeline(GenLang, pipelines).ok
    /\ LET pipes == GetPipeline(GenLang, pipelines).pipelines
           token_count == CountTokens(gen.text, G2PWorks(GenLang))
           chunked == NeedsChunking(token_count, config)
           chunks == ChunkTextSmart(gen.text, config, CountWorks("a", pipes)).chunks
           todo == IF chunked THEN chunks ELSE <<gen.text>>
       IN  /\ gen' = [gen EXCEPT !.pc = IF todo = <<>> THEN "finish" ELSE "synth",
                                 !.chunked = chunked, !.todo = todo]
           /\ LET c1 == GetPipelineIn(GenLang, Cache)
                  c2 == IF chunked THEN GetPipelineIn("a", c1) ELSE c1
              IN  /\ pipelines' = c2.pipelines
                  /\ kp_built' = c2.built
                  /\ kp_cached' = c2.cached
           /\ events' = events
                  \o CountEvents(GenLang, pipelines, "generate", gen.text)
                  \o (IF chunked
                      THEN CountEvents("a", pipes, "_chunk_text_smart", gen.text)
                      ELSE <<>>)
    /\ UNCHANGED <<outsideEngine, stream, batch, envVars, engine, kp_broken, files, call,
                   script>>

\* lines 477-484 and 498-506: one pipeline(...) call that yields audio
SynthChunk ==
    /\ gen.pc = "synth"
    /\ LET k == Len(gen.audio_chunks) + 1
       IN  /\ gen' = [gen EXCEPT !.audio_chunks = Append(@, Buffer(k, EngineSamples)),
                                 !.synth_calls = Append(@, gen.todo[k]),
                                 !.pc = IF k = Len(gen.todo) THEN "finish" ELSE "synth"]
           /\ events' = Append(events, Ev("synth", "generate", GenLang, gen.todo[k]))
    /\ UNCHANGED <<outsideEngine, stream, batch, envVars, engine, kp_broken, cacheVars,
                   files, call, script>>

\* variant: a failed chunk ends the loop and the chunks synthesized so far
\* go on to be combined and saved
SynthChunkFails_KeepPartial ==
    /\ gen.pc = "synth"
    /\ LET k == Len(gen.audio_chunks) + 1
       IN  /\ gen' = IF k > 1
                     THEN [gen EXCEPT !.synth_calls = Append(@, gen.todo[k]),
                                      !.pc = "finish"]
                     ELSE [gen EXCEPT !.synth_calls = Append(@, gen.todo[k]),
                                      !.pc = "raised",
                                      !.out = Raises(GenerateExcept("RuntimeError"))]
           /\ events' = Append(events, Ev("synth_failed", "generate", GenLang, gen.todo[k]))
    /\ UNCHANGED <<outsideEngine, stream, batch, envVars, engine, kp_broken, cacheVars,
                   files, call, script>>

\* the engine raises during one pipeline(...) call: lines 534-536
SynthChunkFails ==
    /\ gen.pc = "synth"
    /\ LET k == Len(gen.audio_chunks) + 1
       IN  /\ gen' = [gen EXCEPT !.synth_calls = Append(@, gen.todo[k]),
                                 !.pc = "raised",
                                 !.out = Raises(GenerateExcept("RuntimeError"))]
           /\ events' = Append(events, Ev("synth_failed", "generate", GenLang, gen.todo[k]))
    /\ UNCHANGED <<outsideEngine, stream, batch, envVars, engine, kp_broken, cacheVars,
                   files, call, script>>

\* variant: a pipeline(...) call that yields nothing counts as an empty array
SynthYieldsNothing_EmptyBuffer ==
    /\ gen.pc = "synth"
    /\ LET k == Len(gen.audio_chunks) + 1
       IN  /\ gen' = [gen EXCEPT !.audio_chunks = Append(@, <<>>),
                                 !.synth_calls = Append(@, gen.todo[k]),
                                 !.pc = IF k = Len(gen.todo) THEN "finish" ELSE "synth"]
           /\ events' = Append(events, Ev("synth", "generate", GenLang, gen.todo[k]))
    /\ UNCHANGED <<outsideEngine, stream, batch, envVars, engine, kp_broken, cacheVars,
                   files, call, script>>

\* the engine yields no sub-buffer: np.concatenate([]) raises ValueError
SynthYieldsNothing ==
    /\ gen.pc = "synth"
    /\ LET k == Len(gen.audio_chunks) + 1
       IN  /\ gen' = [gen EXCEPT !.synth_calls = Append(@, gen.todo[k]),
                                 !.pc = "raised",
                                 !.out = Raises(GenerateExcept("ValueError"))]
           /\ events' = Append(events, Ev("synth", "generate", GenLang, gen.todo[k]))
    /\ UNCHANGED <<outsideEngine, stream, batch, envVars, engine, kp_broken, cacheVars,
                   files, call, script>>

\* lines 486-530: combine the chunks (chunked branch only), enhance if asked,
\* then save or return.  enhance_audio and save_audio may raise.
GenerateFinish ==
    /\ gen.pc = "finish"
    /\ \E enhance_ok \in BOOLEAN, save_ok \in BOOLEAN :
          LET assembled ==
                  IF gen.chunked
                  THEN CombineAudioSegments(gen.audio_chunks, config.sample_rate,
                                            config.chunk_gap_duration, DefaultCrossfade)
                  ELSE Returns(gen.audio_chunks[1])
              combine_ev == IF gen.chunked
                            THEN <<Ev("combine", "generate", GenLang, gen.text)>> ELSE <<>>
              enhance_ev == IF GenEnhance
                            THEN <<Ev("enhance", "generate", GenLang, gen.text)>> ELSE <<>>
              final_audio == IF GenEnhance THEN Enhanced(assembled.audio)
                             ELSE assembled.audio
          IN  IF ~assembled.ok
              THEN /\ gen' = [gen EXCEPT !.pc = "raised",
                                         !.out = Raises(GenerateExcept(assembled.error))]
                   /\ events' = events \o combine_ev
                   /\ files' = files
              ELSE IF GenEnhance /\ ~enhance_ok
              THEN /\ gen' = [gen EXCEPT !.pc = "raised", !.assembled = assembled.audio,
                                         !.out = Raises(GenerateExcept("AudioProcessingError"))]
                   /\ events' = events \o combine_ev \o enhance_ev
                   /\ files' = files
              ELSE IF gen.output_path = ""
              THEN /\ gen' = [gen EXCEPT !.pc = "returned", !.assembled = assembled.audio,
                                         !.out = Returns(final_audio)]
                   /\ events' = events \o combine_ev \o enhance_ev
                   /\ files' = files
              ELSE IF save_ok
              THEN /\ gen' = [gen EXCEPT !.pc = "returned", !.assembled = assembled.audio,
                                         !.out = ReturnsPath(gen.output_path)]
                   /\ events' = events \o combine_ev \o enhance_ev
                          \o <<Ev("save", "generate", GenLang, gen.text)>>
                   /\ files' = files \cup {gen.output_path}
              ELSE /\ gen' = [gen EXCEPT !.pc = "raised", !.assembled = assembled.audio,
                                         !.out = Raises(GenerateExcept("AudioProcessingError"))]
                   /\ events' = events \o combine_ev \o enhance_ev
                          \o <<Ev("save", "generate", GenLang, gen.text)>>
                   /\ files' = files
    /\ UNCHANGED <<outsideEngine, stream, batch, envVars, engine, kp_broken, cacheVars,
                   call, script>>

\* process_script lines 688-708: read the script and chunk it
CallProcessScript ==
    /\ Idle
    /\ \E t \in EngineTexts, voice \in RequestVoices, speed \in RequestSpeeds :
          /\ script' = [NoScript EXCEPT
                          !.pc = "loop", !.text = t, !.voice = voice, !.speed = speed,
                          !.output_path = "script.wav",
                          !.chunks = ChunkTextSmart(t, config, CountWorks("a", pipelines)).chunks]
          /\ events' = IF Strip(t) = <<>> THEN <<>>
                       ELSE CountEvents("a", pipelines, "_chunk_text_smart", t)
          /\ LET c == IF Strip(t) = <<>> THEN Cache ELSE GetPipelineIn("a", Cache)
             IN  /\ pipelines' = c.pipelines
                 /\ kp_built' = c.built
                 /\ kp_cached' = c.cached
    /\ call' = [NoCall EXCEPT !.op = "process_script", !.files0 = files]
    /\ gen' = NoGen
    /\ UNCHANGED <<outsideEngine, stream, batch, envVars, engine, kp_broken, files>>

\* line 723: generate(chunk, voice=voice, speed=speed)
ScriptCallsGenerate ==
    /\ call.op = "process_script"
    /\ script.pc = "loop"
    /\ Len(script.audio_segments) < Len(script.chunks)
    /\ gen' = Called(script.chunks[Len(script.audio_segments) + 1], script.voice,
                     script.speed, "none", "", Len(events))
    /\ script' = [script EXCEPT !.pc = "waiting"]
    /\ UNCHANGED <<outsideEngine, stream, batch, envVars, engine, kp_broken, cacheVars,
                   files, call, events>>

\* line 728: the chunk's audio is kept
ScriptCollect ==
    /\ call.op = "process_script"
    /\ script.pc = "waiting"
    /\ gen.pc = "returned"
    /\ script' = [script EXCEPT !.pc = "loop",
                                !.audio_segments = Append(@, gen.out.audio)]
    /\ UNCHANGED <<outsideEngine, stream, batch, envVars, engine, kp_broken, cacheVars,
                   files, call, gen, events>>

\* generate raised: process_script has no handler, the error passes through
ScriptAborts ==
    /\ call.op = "process_script"
    /\ script.pc = "waiting"
    /\ gen.pc = "raised"
    /\ script' = [script EXCEPT !.pc = "raised", !.out = gen.out]
    /\ UNCHANGED <<outsideEngine, stream, batch, envVars, engine, kp_broken, cacheVars,
                   files, call, gen, events>>

\* lines 730-751: combine the chunk audios and save
ScriptFinish ==
    /\ call.op = "process_script"
    /\ script.pc = "loop"
    /\ Len(script.audio_segments) = Len(script.chunks)
    /\ \E save_ok \in BOOLEAN :
          LET combined == CombineAudioSegments(script.audio_segments, config.sample_rate,
                                               script.gap_duration, DefaultCrossfade)
              combine_ev == <<Ev("combine", "process_script", "", script.text)>>
              save_ev == <<Ev("save", "process_script", "", script.text)>>
          IN  IF ~combined.ok
              THEN /\ script' = [script EXCEPT !.pc = "raised", !.out = Raises(combined.error)]
                   /\ events' = events \o combine_ev
                   /\ files' = files
              ELSE IF save_ok
              THEN /\ script' = [script EXCEPT !.pc = "returned",
                                               !.out = ReturnsPath(script.output_path)]
                   /\ events' = events \o combine_ev \o save_ev
                   /\ files' = files \cup {script.output_path}
              ELSE /\ script' = [script EXCEPT !.pc = "raised",
                                               !.out = Raises("AudioProcessingError")]
                   /\ events' = events \o combine_ev \o save_ev
                   /\ files' = files
    /\ UNCHANGED <<outsideEngine, stream, batch, envVars, engine, kp_broken, cacheVars,
                   call, gen>>

\* a caller creates the generate_stream generator; its body runs when the
\* caller asks for the first buffer
CallGenerateStream ==
    /\ Idle
    /\ \E t \in EngineTexts, voice \in RequestVoices, speed \in RequestSpeeds :
          stream' = [NoStream EXCEPT !.pc = "called", !.text = t, !.voice = voice,
                                     !.speed = speed]
    /\ call' = [NoCall EXCEPT !.op = "generate_stream", !.files0 = files]
    /\ events' = <<>>
    /\ UNCHANGED <<outsideEngine, batch, envVars, engine, kp_broken, cacheVars, files,
                   gen, script>>

\* lines 562-563
StreamVoice == IF stream.voice = "" THEN config.voice ELSE stream.voice

StreamSpeed == IF stream.speed.given THEN stream.speed.value ELSE config.speed

StreamValid == StreamVoice \in ALL_VOICES /\ SpeedInRange(StreamSpeed)

StreamLang == get_lang_code_from_voice(StreamVoice)

\* lines 565-568 when the KPipeline constructor raises (596-598)
StreamBeginFails ==
    /\ stream.pc = "called"
    /\ ~GetPipeline(StreamLang, pipelines).ok
    /\ stream' = [stream EXCEPT !.pc = "raised", !.out = Raises("TTSGenerationError")]
    /\ events' = events \o PipelineEvents(StreamLang, pipelines, "generate_stream")
    /\ UNCHANGED <<outsideEngine, batch, envVars, engine, kp_broken, cacheVars, files,
                   call, gen, script>>

\* lines 562-581: the defaults, the pipeline, the token count and the choice
\* between direct synthesis and chunking; voice and speed are not examined
StreamBegin ==
    /\ stream.pc = "called"
    /\ GetPipeline(StreamLang, pipelines).ok
    /\ LET pipes == GetPipeline(StreamLang, pipelines).pipelines
           token_count == CountTokens(stream.text, G2PWorks(StreamLang))
           chunked == NeedsChunking(token_count, config)
           chunks == ChunkTextSmart(stream.text, config, CountWorks("a", pipes)).chunks
           todo == IF chunked THEN chunks ELSE <<stream.text>>
           c1 == GetPipelineIn(StreamLang, Cache)
           c2 == IF chunked THEN GetPipelineIn("a", c1) ELSE c1
       IN  /\ stream' = [stream EXCEPT !.pc = IF todo = <<>> THEN "returned" ELSE "synth",
                                       !.chunked = chunked, !.todo = todo]
           /\ pipelines' = c2.pipelines
           /\ kp_built' = c2.built
           /\ kp_cached' = c2.cached
           /\ events' = events
                  \o CountEvents(StreamLang, pipelines, "generate_stream", stream.text)
                  \o (IF chunked
                      THEN CountEvents("a", pipes, "_chunk_text_smart", stream.text)
                      ELSE <<>>)
    /\ UNCHANGED <<outsideEngine, batch, envVars, engine, kp_broken, files, call, gen,
                   script>>

\* lines 583-587 and 590-594 when the engine yields no sub-buffer for the
\* piece of text: the inner for loop has nothing to yield and the generator
\* goes on, without an error
StreamYieldsNothing ==
    /\ stream.pc = "synth"
    /\ LET k == Len(stream.synth_calls) + 1
       IN  /\ stream' = [stream EXCEPT
                            !.synth_calls = Append(@, stream.todo[k]),
                            !.pc = IF k = Len(stream.todo) THEN "returned" ELSE "synth"]
           /\ events' = Append(events,
                               Ev("synth", "generate_stream", StreamLang, stream.todo[k]))
    /\ UNCHANGED <<outsideEngine, batch, envVars, engine, kp_broken, cacheVars, files,
                   call, gen, script>>

\* variant: every buffer is enhanced before it is yielded
StreamYield_Enhanced ==
    /\ stream.pc = "synth"
    /\ LET k == Len(stream.synth_calls) + 1
       IN  /\ stream' = [stream EXCEPT
                            !.synth_calls = Append(@, stream.todo[k]),
                            !.yielded = Append(@, Enhanced(Buffer(k, EngineSamples))),
                            !.pc = IF k = Len(stream.todo) THEN "returned" ELSE "synth"]
           /\ events' = Append(events,
                               Ev("synth", "generate_stream", StreamLang, stream.todo[k]))
    /\ UNCHANGED <<outsideEngine, batch, envVars, engine, kp_broken, cacheVars, files,
                   call, gen, script>>

\* lines 583-587 and 590-594: pipeline(...) is called for the next piece of
\* text and its audio is yielded to the consumer
StreamYield ==
    /\ stream.pc = "synth"
    /\ LET k == Len(stream.synth_calls) + 1
       IN  /\ stream' = [stream EXCEPT
                            !.synth_calls = Append(@, stream.todo[k]),
                            !.yielded = Append(@, Buffer(k, EngineSamples)),
                            !.pc = IF k = Len(stream.todo) THEN "returned" ELSE "synth"]
           /\ events' = Append(events,
                               Ev("synth", "generate_stream", StreamLang, stream.todo[k]))
    /\ UNCHANGED <<outsideEngine, batch, envVars, engine, kp_broken, cacheVars, files,
                   call, gen, script>>

\* the engine raises during a pipeline(...) call: lines 596-598
StreamSynthFails ==
    /\ stream.pc = "synth"
    /\ LET k == Len(stream.synth_calls) + 1
       IN  /\ stream' = [stream EXCEPT !.synth_calls = Append(@, stream.todo[k]),
                                       !.pc = "raised",
                                       !.out = Raises("TTSGenerationError")]
           /\ events' = Append(events,
                               Ev("synth_failed", "generate_stream", StreamLang,
                                  stream.todo[k]))
    /\ UNCHANGED <<outsideEngine, batch, envVars, engine, kp_broken, cacheVars, files,
                   call, gen, script>>

\* a caller enters batch_generate(texts, output_dir, voice, speed)
CallBatchGenerate ==
    /\ Idle
    /\ \E texts \in BatchTexts, voice \in RequestVoices, speed \in RequestSpeeds :
          batch' = [NoBatch EXCEPT !.pc = "loop", !.texts = texts, !.voice = voice,
                                   !.speed = speed]
    /\ call' = [NoCall EXCEPT !.op = "batch_generate", !.files0 = files]
    /\ events' = <<>>
    /\ UNCHANGED <<outsideEngine, stream, envVars, engine, kp_broken, cacheVars, files,
                   gen, script>>

\* variant: every text of the batch is written to the first file name
BatchCallsGenerate_OneName ==
    /\ call.op = "batch_generate"
    /\ batch.pc = "loop"
    /\ Len(batch.paths) < Len(batch.texts)
    /\ gen' = Called(batch.texts[Len(batch.paths) + 1], batch.voice, batch.speed, "none",
                     BatchFile(1), Len(events))
    /\ batch' = [batch EXCEPT !.pc = "waiting"]
    /\ UNCHANGED <<outsideEngine, stream, envVars, engine, kp_broken, cacheVars, files,
                   call, script, events>>

\* line 640: generate(text, output_file, voice=voice, speed=speed)
BatchCallsGenerate ==
    /\ call.op = "batch_generate"
    /\ batch.pc = "loop"
    /\ Len(batch.paths) < Len(batch.texts)
    /\ gen' = Called(batch.texts[Len(batch.paths) + 1], batch.voice, batch.speed, "none",
                     BatchFile(Len(batch.paths) + 1), Len(events))
    /\ batch' = [batch EXCEPT !.pc = "waiting"]
    /\ UNCHANGED <<outsideEngine, stream, envVars, engine, kp_broken, cacheVars, files,
                   call, script, events>>

\* line 641: the path generate returned is kept
BatchCollect ==
    /\ call.op = "batch_generate"
    /\ batch.pc = "waiting"
    /\ gen.pc = "returned"
    /\ batch' = [batch EXCEPT !.pc = "loop", !.paths = Append(@, gen.out.path)]
    /\ UNCHANGED <<outsideEngine, stream, envVars, engine, kp_broken, cacheVars, files,
                   call, gen, script, events>>

\* variant: a failed text ends the batch with the paths collected so far
BatchAborts_ReturnsPartial ==
    /\ call.op = "batch_generate"
    /\ batch.pc = "waiting"
    /\ gen.pc = "raised"
    /\ batch' = [batch EXCEPT !.pc = "returned",
                              !.out = [ok |-> TRUE, error |-> "", paths |-> batch.paths]]
    /\ UNCHANGED <<outsideEngine, stream, envVars, engine, kp_broken, cacheVars, files,
                   call, gen, script, events>>

\* lines 643-645: the error of generate is raised again
BatchAborts ==
    /\ call.op = "batch_generate"
    /\ batch.pc = "waiting"
    /\ gen.pc = "raised"
    /\ batch' = [batch EXCEPT !.pc = "raised",
                              !.out = [ok |-> FALSE, error |-> gen.out.error,
                                       paths |-> <<>>]]
    /\ UNCHANGED <<outsideEngine, stream, envVars, engine, kp_broken, cacheVars, files,
                   call, gen, script, events>>

\* lines 647-648
BatchFinish ==
    /\ call.op = "batch_generate"
    /\ batch.pc = "loop"
    /\ Len(batch.paths) = Len(batch.texts)
    /\ batch' = [batch EXCEPT !.pc = "returned",
                              !.out = [ok |-> TRUE, error |-> "", paths |-> batch.paths]]
    /\ UNCHANGED <<outsideEngine, stream, envVars, engine, kp_broken, cacheVars, files,
                   call, gen, script, events>>

\* a caller runs _count_tokens(text, lang_code) to its end
CallCountTokens ==
    /\ Idle
    /\ \E t \in EngineTexts, lang \in {"a", "b"} :
          /\ call' = [NoCall EXCEPT !.op = "_count_tokens", !.files0 = files,
                                    !.text = t, !.lang = lang,
                                    !.count = CountTokensOutcome(t, lang, pipelines)]
          /\ events' = CountEvents(lang, pipelines, "_count_tokens", t)
          /\ LET c == GetPipelineIn(lang, Cache)
             IN  /\ pipelines' = c.pipelines
                 /\ kp_built' = c.built
                 /\ kp_cached' = c.cached
    /\ UNCHANGED <<outsideEngine, stream, batch, envVars, engine, kp_broken, files,
                   gen, script>>

\* the public method has returned or raised: its frame is gone, the
\* pipeline cache and the written files stay
ReturnToCaller ==
    /\ RequestDone
    /\ call' = NoCall
    /\ gen' = NoGen
    /\ script' = NoScript
    /\ stream' = NoStream
    /\ batch' = NoBatch
    /\ events' = <<>>
    /\ UNCHANGED <<outsideEngine, envVars, engine, kp_broken, cacheVars, files>>

NextEngine ==
    \/ BuildConfigRejected
    \/ BuildEngine
    \/ BuildEngineFails
    \/ CallGenerate
    \/ GenerateRejectVoice
    \/ GenerateRejectSpeed
    \/ GenerateBeginFails
    \/ GenerateBegin
    \/ SynthChunk
    \/ SynthChunkFails
    \/ SynthYieldsNothing
    \/ GenerateFinish
    \/ CallProcessScript
    \/ ScriptCallsGenerate
    \/ ScriptCollect
    \/ ScriptAborts
    \/ ScriptFinish
    \/ CallCountTokens
    \/ CallGenerateStream
    \/ StreamBeginFails
    \/ StreamBegin
    \/ StreamYield
    \/ StreamYieldsNothing
    \/ StreamSynthFails
    \/ CallBatchGenerate
    \/ BatchCallsGenerate
    \/ BatchCollect
    \/ BatchAborts
    \/ BatchFinish
    \/ ReturnToCaller

SpecEngine == InitEngine /\ [][NextEngine]_vars

\* ------------------------------------------------------------ enhance_audio
InitEnhance ==
    /\ enhance_call \in EnhanceInputs
    /\ enhance_result = EnhancePending
    /\ combine_call = NoCombineCall
    /\ combine_result = Pending
    /\ text = <<>>
    /\ config = DefaultConfig
    /\ g2p_broken = {}
    /\ sentences = <<>>
    /\ chunker = EmptyChunker
    /\ cpc = "idle"
    /\ engine = "unbuilt"
    /\ kp_broken = {}
    /\ pipelines = {}
    /\ files = {}
    /\ call = NoCall
    /\ gen = NoGen
    /\ script = NoScript
    /\ events = <<>>
    /\ kp_built = NoneBuilt
    /\ kp_cached = NoneBuilt
    /\ stream = NoStream
    /\ batch = NoBatch
    /\ threads = NoThreads

\* the call returns the enhanced array (line 109)
EnhanceReturns ==
    /\ enhance_result = EnhancePending
    /\ \E trim \in TrimIndices(Len(enhance_call.audio)) :
          /\ EnhanceAudio(enhance_call, trim, "none").ok
          /\ enhance_result' = EnhanceAudio(enhance_call, trim, "none")
    /\ UNCHANGED <<enhance_call, chunkVars, combineVars, envVars, engineVars, threads>>

\* the call raises (lines 111-113)
EnhanceRaises ==
    /\ enhance_result = EnhancePending
    /\ \E trim \in TrimIndices(Len(enhance_call.audio)),
          failing \in LibrosaStages(enhance_call) :
          /\ ~EnhanceAudio(enhance_call, trim, failing).ok
          /\ enhance_result' = EnhanceAudio(enhance_call, trim, failing)
    /\ UNCHANGED <<enhance_call, chunkVars, combineVars, envVars, engineVars, threads>>

NextEnhance == EnhanceReturns \/ EnhanceRaises

SpecEnhance == InitEnhance /\ [][NextEnhance]_vars

\* ------------------------------------- _get_pipeline under concurrent callers
\* Callers on different threads run _get_pipeline on one engine.  The method
\* takes no lock, and constructing a KPipeline loads a model, so a thread
\* switch can fall between the membership test (line 214), the constructor
\* call, the dict store (line 216) and the dict read of line 217.
ThreadIds == 1..MaxThreads

IdleThread == [pc |-> "idle", lang |-> "", obj |-> 0, got |-> 0]

\* the variables the steps of _get_pipeline leave alone
aroundCache ==
    <<chunkVars, combineVars, envVars, enhanceVars, engine, kp_broken, files, call, gen,
      script, events, stream, batch>>

\* an engine built with the default voice: its language is cached
InitPipeline ==
    /\ engine = "ready"
    /\ config = DefaultConfig
    /\ g2p_broken = {}
    /\ kp_broken \in { {}, {"b"} }
    /\ pipelines = {"a"}
    /\ kp_built = [NoneBuilt EXCEPT !["a"] = 1]
    /\ kp_cached = [NoneBuilt EXCEPT !["a"] = 1]
    /\ threads = [t \in ThreadIds |-> IdleThread]
    /\ files = {}
    /\ call = NoCall
    /\ gen = NoGen
    /\ script = NoScript
    /\ stream = NoStream
    /\ batch = NoBatch
    /\ events = <<>>
    /\ text = <<>>
    /\ sentences = <<>>
    /\ chunker = EmptyChunker
    /\ cpc = "idle"
    /\ combine_call = NoCombineCall
    /\ combine_result = Pending
    /\ enhance_call = NoEnhanceCall
    /\ enhance_result = EnhancePending

\* a caller enters _get_pipeline(lang_code), for the first time or again
PipelineRequest(t) ==
    /\ threads[t].pc \in {"idle", "done", "raised"}
    /\ \E lang \in {"a", "b"} :
          threads' = [threads EXCEPT ![t] = [IdleThread EXCEPT !.pc = "check",
                                                               !.lang = lang]]
    /\ UNCHANGED <<aroundCache, cacheVars>>

\* line 214: the key is in the dict
PipelineHit(t) ==
    /\ threads[t].pc = "check"
    /\ threads[t].lang \in pipelines
    /\ threads' = [threads EXCEPT ![t].pc = "return"]
    /\ UNCHANGED <<aroundCache, cacheVars>>

\* line 214: the key is not in the dict
PipelineMiss(t) ==
    /\ threads[t].pc = "check"
    /\ threads[t].lang \notin pipelines
    /\ threads' = [threads EXCEPT ![t].pc = "construct"]
    /\ UNCHANGED <<aroundCache, cacheVars>>

\* line 216, right-hand side: KPipeline(...) returns a new object
PipelineConstruct(t) ==
    /\ threads[t].pc = "construct"
    /\ threads[t].lang \notin kp_broken
    /\ kp_built' = [kp_built EXCEPT ![threads[t].lang] = @ + 1]
    /\ threads' = [threads EXCEPT ![t].pc = "store",
                                  ![t].obj = kp_built[threads[t].lang] + 1]
    /\ UNCHANGED <<aroundCache, pipelines, kp_cached>>

\* line 216, right-hand side: KPipeline(...) raises
PipelineConstructFails(t) ==
    /\ threads[t].pc = "construct"
    /\ threads[t].lang \in kp_broken
    /\ threads' = [threads EXCEPT ![t].pc = "raised"]
    /\ UNCHANGED <<aroundCache, cacheVars>>

\* line 216, the assignment self._pipelines[lang_code] = ...
PipelineStore(t) ==
    /\ threads[t].pc = "store"
    /\ pipelines' = pipelines \cup {threads[t].lang}
    /\ kp_cached' = [kp_cached EXCEPT ![threads[t].lang] = threads[t].obj]
    /\ threads' = [threads EXCEPT ![t].pc = "return"]
    /\ UNCHANGED <<aroundCache, kp_built>>

\* line 217: return self._pipelines[lang_code]
PipelineReturn(t) ==
    /\ threads[t].pc = "return"
    /\ threads' = [threads EXCEPT ![t].pc = "done",
                                  ![t].got = kp_cached[threads[t].lang]]
    /\ UNCHANGED <<aroundCache, cacheVars>>

NextPipeline ==
    \E t \in ThreadIds :
        \/ PipelineRequest(t)
        \/ PipelineHit(t)
        \/ PipelineMiss(t)
        \/ PipelineConstruct(t)
        \/ PipelineConstructFails(t)
        \/ PipelineStore(t)
        \/ PipelineReturn(t)

SpecPipeline == InitPipeline /\ [][NextPipeline]_vars

\* ------------------------------------------------------------------ claims
\* number of words of a chunk
WordCount(chunk) == Len(SplitWords(chunk))

Returned == cpc = "done"

\* C1: the returned chunks, concatenated in order with all whitespace
\* removed, equal the input text with all whitespace removed.
C1_ChunkCoverage ==
    Returned => NoSpace(Flatten(chunker.chunks)) = NoSpace(text)

\* C2: every returned chunk of more than one word has a token count of at
\* most token_absolute_max.
C2_TokenBound ==
    Returned =>
        \A i \in 1..Len(chunker.chunks) :
            WordCount(chunker.chunks[i]) > 1
                => chunker.chunk_tokens[i] <= config.token_absolute_max

\* C10: a returned chunk below token_target_min is the only chunk or the
\* last chunk of the list.
C10_MinimumMerging ==
    Returned =>
        \A i \in 1..Len(chunker.chunks) :
            chunker.chunk_tokens[i] < config.token_target_min
                => (Len(chunker.chunks) = 1 \/ i = Len(chunker.chunks))

CombineDone == combine_result # Pending

RECURSIVE SumLen(_)
SumLen(segs) == IF segs = <<>> THEN 0 ELSE Len(Head(segs)) + SumLen(Tail(segs))

\* the identities of the samples of a buffer, gains left aside
Ids(buf) == [j \in 1..Len(buf) |-> <<buf[j].seg, buf[j].pos>>]

GapSamples == ToSamples(combine_call.gap_duration, combine_call.sample_rate)

\* C7: for a non-empty list and non-negative gap and crossfade durations the
\* call returns segment 1, gap, segment 2, ..., segment n in input order, each
\* gap being int(gap_duration * sample_rate) zero samples; the output length
\* is the sum of the segment lengths plus (n-1) gaps.
C7_CombineLayout ==
    (CombineDone /\ combine_call.segments # <<>>) =>
        /\ combine_result.ok
        /\ Ids(combine_result.audio) =
             Ids(Interleave(combine_call.segments, [j \in 1..GapSamples |-> Silence]))
        /\ \A j \in 1..Len(combine_result.audio) :
             combine_result.audio[j].seg = 0 => combine_result.audio[j].num = 0
        /\ Len(combine_result.audio) =
             SumLen(combine_call.segments) + (Len(combine_call.segments) - 1) * GapSamples

\* C8: called with an empty list the function raises AudioProcessingError
\* and returns no buffer.
C8_CombineEmptyRaises ==
    (CombineDone /\ combine_call.segments = <<>>) =>
        /\ ~combine_result.ok
        /\ combine_result.error = "AudioProcessingError"
        /\ combine_result.audio = <<>>

C8_Witness ==
    /\ CombineDone
    /\ combine_call.segments = <<>>
    /\ combine_result.error = "AudioProcessingError"

\* the collaborator calls made since the running generate call was entered
GenEvents == SubSeq(events, gen.at_call.nevents + 1, Len(events))

GenEntered == gen.pc \notin {"idle", "called"}

\* C3: generate with a voice outside ALL_VOICES raises InvalidVoiceError, with
\* a known voice and a speed outside [0.5, 2.0] InvalidParameterError; the
\* error reaches the caller as it is, and no pipeline has been created or
\* invoked and no file written by the call.
C3_ValidationFailsFast ==
    (GenEntered /\ ~GenValid) =>
        /\ gen.pc = "raised"
        /\ gen.out = Raises(IF GenVoice \notin ALL_VOICES THEN "InvalidVoiceError"
                            ELSE "InvalidParameterError")
        /\ GenEvents = <<>>
        /\ pipelines = gen.at_call.pipelines
        /\ files = gen.at_call.files

\* a known voice whose language has no cached pipeline, a speed of 2.01 and
\* an output path: the call has raised InvalidParameterError
C3_Witness ==
    /\ gen.pc = "raised"
    /\ gen.out.error = "InvalidParameterError"
    /\ GenVoice \in ALL_VOICES
    /\ GenLang \notin pipelines
    /\ gen.output_path # ""

SynthFailed ==
    /\ call.op \in {"generate", "process_script"}
    /\ \E i \in 1..Len(events) : events[i].op = "synth_failed"

\* C4: once the engine has raised while synthesizing a chunk, the request
\* makes no further call (no synthesis, combination, enhancement or save),
\* writes no file, and generate, and process_script around it, end with
\* TTSGenerationError and no audio buffer.
C4_SynthesisFailureAborts ==
    SynthFailed =>
        /\ events[Len(events)].op = "synth_failed"
        /\ files = call.files0
        /\ gen.pc = "raised"
        /\ gen.out = Raises("TTSGenerationError")
        /\ (RequestDone => Result = Raises("TTSGenerationError"))

\* the engine raised on the second chunk of a chunked generate call that has
\* an output path
C4_Witness ==
    /\ call.op = "generate"
    /\ gen.chunked
    /\ Len(gen.todo) >= 2
    /\ Len(gen.audio_chunks) >= 1
    /\ gen.output_path # ""
    /\ SynthFailed
    /\ gen.pc = "raised"

SplitsText == (call.op = "generate" /\ gen.chunked) \/ call.op = "process_script"

EnhanceCalls == { i \in 1..Len(events) : events[i].op = "enhance" }

\* C5: in a request that splits its text into chunks, enhance_audio is
\* called at most once, after the request's combination and on its result,
\* never on the audio of one chunk.
C5_EnhanceOnceOnCombined ==
    SplitsText =>
        /\ Cardinality(EnhanceCalls) <= 1
        /\ \A i \in EnhanceCalls :
             /\ \E j \in 1..(i - 1) :
                   /\ events[j].op = "combine"
                   /\ events[j].by = (IF call.op = "generate" THEN "generate"
                                      ELSE "process_script")
             /\ \A j \in (i + 1)..Len(events) :
                   events[j].op \notin {"synth", "synth_failed", "combine"}

IsPrefix(s, t) == Len(s) <= Len(t) /\ SubSeq(t, 1, Len(s)) = s

\* what one generate call has to synthesize: the whole text when its token
\* count is at most token_target_max, the chunker's chunks otherwise
ExpectedSynthesis ==
    IF CountTokens(gen.text, GenLang \notin g2p_broken) <= config.token_target_max
    THEN <<gen.text>>
    ELSE ChunkTextSmart(gen.text, config,
                        "a" \notin kp_broken /\ "a" \notin g2p_broken).chunks

\* the chunk numbers of the voiced samples of a buffer, in buffer order
RECURSIVE ChunkOrder(_)
ChunkOrder(audio) ==
    IF audio = <<>> THEN <<>>
    ELSE IF Head(audio).seg = 0 THEN ChunkOrder(Tail(audio))
    ELSE <<Head(audio).seg>> \o ChunkOrder(Tail(audio))

\* C6: the synthesis calls of one generate call are [whole text] when the
\* token count is at most token_target_max and the chunker's chunks in
\* chunker order otherwise, one after the other; the assembled buffer holds
\* the audio of chunk i before that of chunk i+1.
C6_SynthesisOrder ==
    (GenEntered /\ GenValid) =>
        /\ IsPrefix(gen.synth_calls, ExpectedSynthesis)
        /\ (gen.pc \in {"finish", "returned"} => gen.synth_calls = ExpectedSynthesis)
        /\ (gen.pc = "returned" =>
              /\ \A i, j \in 1..Len(ChunkOrder(gen.assembled)) :
                    i < j => ChunkOrder(gen.assembled)[i] <= ChunkOrder(gen.assembled)[j]
              /\ { gen.assembled[i].seg : i \in 1..Len(gen.assembled) } \ {0}
                    = 1..Len(gen.todo))

\* a chunked generate call of at least two chunks has returned
C6_Witness ==
    /\ gen.pc = "returned"
    /\ gen.chunked
    /\ Len(gen.synth_calls) >= 2

\* C9: thresholds that violate token_target_min <= token_target_max <=
\* token_absolute_max are rejected when the config or the engine is built, or
\* at the start of a generation call: no token is counted and nothing is
\* synthesized with such thresholds.
C9_ThresholdsValidated ==
    (engine = "ready" /\ events # <<>>) => WellOrdered(config)

\* C11: every returned chunk holds at least one non-whitespace character (so
\* none is the empty string), and a text without any non-whitespace character
\* gives the empty list.
C11_NoEmptyChunk ==
    Returned =>
        /\ \A i \in 1..Len(chunker.chunks) : NoSpace(chunker.chunks[i]) # <<>>
        /\ (NoSpace(text) = <<>> => chunker.chunks = <<>>)

\* a whitespace-only text has been chunked into the empty list
C11_Witness ==
    /\ Returned
    /\ text # <<>>
    /\ NoSpace(text) = <<>>
    /\ chunker.chunks = <<>>

\* C12: a _count_tokens call returns a non-negative integer and raises
\* nothing; when the pipeline could not be created or its G2P raised, the
\* integer is len(text) // 4.
C12_CountNeverRaises ==
    call.op = "_count_tokens" =>
        /\ call.count.ok
        /\ call.count.value \in Nat
        /\ ((call.lang \notin pipelines \/ call.lang \in g2p_broken)
               => call.count.value = Len(call.text) \div 4)

\* the constructor of the requested language raised during the call and a
\* text of four characters or more was counted as len(text) // 4
C12_Witness ==
    /\ call.op = "_count_tokens"
    /\ call.lang \in kp_broken
    /\ call.lang \notin pipelines
    /\ Len(call.text) >= 4
    /\ call.count = Counted(Len(call.text) \div 4)

\* the cache holds, for every language, the first object constructed for it
\* or nothing, and no second object has been constructed
CacheBuiltOnce ==
    \A l \in LangCodes :
        /\ kp_built[l] <= 1
        /\ kp_cached[l] = (IF l \in pipelines THEN 1 ELSE 0)

\* a cached entry stays in the cache and keeps its object
CacheEntryKept ==
    \A l \in LangCodes :
        kp_cached[l] # 0 => (l \in pipelines' /\ kp_cached'[l] = kp_cached[l])

\* C13: over any sequence of generate, generate_stream, batch_generate,
\* process_script and _count_tokens calls on one engine, the KPipeline
\* constructor succeeds at most once per language code, every request for a
\* cached language is answered with the cached object, and a cached entry
\* is never replaced or removed.
C13_PipelineBuiltOnce == [](CacheBuiltOnce) /\ [][CacheEntryKept]_vars

\* a generate call for a voice whose language was already cached when the
\* call was entered has returned, after a language other than the default
\* voice's was cached by an earlier call
C13_Witness ==
    /\ call.op = "generate"
    /\ gen.pc = "returned"
    /\ GenLang \in gen.at_call.pipelines
    /\ GenLang # get_lang_code_from_voice(config.voice)
    /\ kp_built[GenLang] = 1

\* C14: with concurrent callers of _get_pipeline on one engine, KPipeline is
\* constructed at most once per language and all callers that asked for a
\* language are handed the same object.
C14_ConcurrentCacheProtected ==
    /\ \A l \in LangCodes : kp_built[l] <= 1
    /\ \A t1, t2 \in DOMAIN threads :
          (threads[t1].pc = "done" /\ threads[t2].pc = "done"
             /\ threads[t1].lang = threads[t2].lang)
            => threads[t1].got = threads[t2].got

EnhanceDone == enhance_result # EnhancePending

\* C15: after an enhance_audio call, whatever the stage toggles, the caller's
\* input buffer holds the samples it held before the call.
C15_EnhanceLeavesInput ==
    EnhanceDone => enhance_result.input = enhance_call.audio

\* enhance_audio raised inside the running generate call: it was the last
\* collaborator called and generate has raised
EnhanceFailedInGenerate ==
    /\ gen.pc = "raised"
    /\ GenEvents # <<>>
    /\ GenEvents[Len(GenEvents)].op = "enhance"

\* C16: when enhance_audio raises inside generate, the call returns no
\* buffer, writes no file, and the error that reaches the caller of generate
\* is AudioProcessingError, not the error kind of a synthesis failure.
C16_EnhanceErrorKind ==
    EnhanceFailedInGenerate =>
        /\ ~gen.out.ok
        /\ gen.out.audio = <<>>
        /\ files = gen.at_call.files
        /\ gen.out.error = "AudioProcessingError"

StreamEntered == stream.pc \notin {"idle", "called"}

\* C17: a generate_stream request with a voice outside ALL_VOICES or a speed
\* outside [0.5, 2.0] fails with the validation error of generate before the
\* engine is called for synthesis and before any buffer is yielded.
C17_StreamValidates ==
    (StreamEntered /\ ~StreamValid) =>
        /\ stream.pc = "raised"
        /\ stream.out.error \in {"InvalidVoiceError", "InvalidParameterError"}
        /\ stream.synth_calls = <<>>
        /\ stream.yielded = <<>>

\* the last pipeline(...) call of the running generate call yielded nothing
YieldedNothing ==
    /\ Len(gen.synth_calls) > Len(gen.audio_chunks)
    /\ GenEvents # <<>>
    /\ GenEvents[Len(GenEvents)].op = "synth"

RECURSIVE NonBlank(_)
NonBlank(sents) ==
    IF sents = <<>> THEN <<>>
    ELSE IF Strip(Head(sents)) = <<>> THEN NonBlank(Tail(sents))
    ELSE <<Strip(Head(sents))>> \o NonBlank(Tail(sents))

TextSentences == NonBlank(SplitSentences(text))

\* the counts _count_tokens gives the sentences, one by one
SentenceTokens ==
    [i \in 1..Len(TextSentences) |-> CountTokens(TextSentences[i], G2PWorks("a"))]

RECURSIVE SumNat(_)
SumNat(ns) == IF ns = <<>> THEN 0 ELSE Head(ns) + SumNat(Tail(ns))

\* C19: when the token counts of the sentences of a text sum to at most
\* token_target_max, the chunker returns exactly one chunk, the sentences
\* joined in order, whatever token_target_min is.
C19_ShortTextOneChunk ==
    (Returned /\ TextSentences # <<>>
       /\ SumNat(SentenceTokens) <= config.token_target_max) =>
        chunker.chunks = <<JoinSpace(TextSentences)>>

\* C20: for a text whose sentences each count at most token_target_max and
\* together more than token_target_max, the chunker returns at least two
\* chunks and every chunk, merged-back sentences included, counts at most
\* token_target_max.
C20_ChunksWithinTarget ==
    (Returned
       /\ (\A i \in 1..Len(TextSentences) : SentenceTokens[i] <= config.token_target_max)
       /\ SumNat(SentenceTokens) > config.token_target_max) =>
        /\ Len(chunker.chunks) >= 2
        /\ \A i \in 1..Len(chunker.chunks) :
              chunker.chunk_tokens[i] <= config.token_target_max

\* the words of the text that count more than token_absolute_max on their own
OversizedWords ==
    { w \in { SplitWords(text)[k] : k \in 1..Len(SplitWords(text)) } :
        CountTokens(w, G2PWorks("a")) > config.token_absolute_max }

\* C21: every word of the text that counts more than token_absolute_max is
\* returned as a chunk of its own: some chunk is exactly that word, and a
\* chunk that holds such a word holds no other word.
C21_OversizedWordAlone ==
    Returned =>
        /\ \A w \in OversizedWords :
              \E i \in 1..Len(chunker.chunks) : chunker.chunks[i] = w
        /\ \A i \in 1..Len(chunker.chunks) :
              (\E k \in 1..WordCount(chunker.chunks[i]) :
                  CountTokens(SplitWords(chunker.chunks[i])[k], G2PWorks("a"))
                      > config.token_absolute_max)
                => WordCount(chunker.chunks[i]) = 1

\* the save_audio calls the request has made so far
SaveCalls == { i \in 1..Len(events) : events[i].op = "save" }

\* C22: batch_generate hands the texts to generate one at a time in input
\* order; while text i+1 is being synthesized the files of texts 1..i have
\* been written, one save each; and a batch in which every text succeeded
\* returns one path per text, in input order, all distinct.
C22_BatchInOrder ==
    call.op = "batch_generate" =>
        /\ batch.paths = [i \in 1..Len(batch.paths) |-> BatchFile(i)]
        /\ (batch.pc = "waiting" /\ gen.pc \in {"called", "synth", "finish"}) =>
              /\ gen.text = batch.texts[Len(batch.paths) + 1]
              /\ gen.output_path = BatchFile(Len(batch.paths) + 1)
              /\ Cardinality(SaveCalls) = Len(batch.paths)
              /\ \A i \in 1..Len(batch.paths) : BatchFile(i) \in files
        /\ batch.pc = "returned" =>
              /\ batch.out.ok
              /\ Len(batch.out.paths) = Len(batch.texts)
              /\ \A i \in 1..Len(batch.texts) :
                    /\ batch.out.paths[i] = BatchFile(i)
                    /\ batch.out.paths[i] \in files
              /\ \A i, j \in 1..Len(batch.out.paths) :
                    i # j => batch.out.paths[i] # batch.out.paths[j]

\* a batch of two texts, the second of them chunked, has returned its paths
C22_Witness ==
    /\ call.op = "batch_generate"
    /\ batch.pc = "returned"
    /\ Len(batch.out.paths) = 2
    /\ gen.chunked
    /\ Cardinality(SaveCalls) = 2

\* what the finished call can be when one of its librosa stages raised
LibrosaFailures ==
    { EnhanceAudio(enhance_call, trim, failing) :
        trim \in TrimIndices(Len(enhance_call.audio)),
        failing \in LibrosaStages(enhance_call) \ {"none"} }

\* C23: for every combination of the stage toggles and every fade_duration
\* of the configured range, enhance_audio returns a buffer unless librosa
\* raised in one of its stages; the buffer is never longer than the input and
\* has exactly the input length when trim_silence is off.
C23_EnhanceLength ==
    EnhanceDone =>
        /\ enhance_result.ok =>
              /\ Len(enhance_result.audio) <= Len(enhance_call.audio)
              /\ (~enhance_call.trim_silence =>
                     Len(enhance_result.audio) = Len(enhance_call.audio))
        /\ ~enhance_result.ok => enhance_result \in LibrosaFailures

CrossfadeSamples == ToSamples(combine_call.crossfade_duration, combine_call.sample_rate)

\* C24: with a fade ramp of at least two samples, every non-empty input
\* segment, shorter or longer than the ramp, is faded on its own: in the
\* output its first and its last sample are scaled to zero.
C24_EverySegmentFaded ==
    (CombineDone /\ combine_call.segments # <<>> /\ CrossfadeSamples >= 2) =>
        /\ combine_result.ok
        /\ \A i \in 1..Len(combine_call.segments) :
              \A j \in 1..Len(combine_result.audio) :
                  (/\ combine_result.audio[j].seg = i
                   /\ combine_result.audio[j].pos \in {1, Len(combine_call.segments[i])})
                    => combine_result.audio[j].num = 0

\* the call ran the fade stage alone, on a buffer of at least one sample
FadeOnly ==
    /\ EnhanceDone
    /\ enhance_call.add_fade
    /\ ~enhance_call.normalize /\ ~enhance_call.trim_silence /\ ~enhance_call.noise_reduction
    /\ Len(enhance_call.audio) >= 1

FadeSamples ==
    Min(ToSamples(enhance_call.fade_duration, enhance_call.sample_rate),
        Len(enhance_call.audio) \div 4)

\* C25: the fade stage succeeds for every buffer of at least one sample and
\* every fade_duration >= 0, a ramp of 0 samples included; the two ramps do
\* not overlap and every sample between them is left as it was.
C25_FadeStage ==
    FadeOnly =>
        /\ enhance_result.ok
        /\ Len(enhance_result.audio) = Len(enhance_call.audio)
        /\ 2 * FadeSamples <= Len(enhance_call.audio)
        /\ \A j \in (FadeSamples + 1)..(Len(enhance_call.audio) - FadeSamples) :
              enhance_result.audio[j] = enhance_call.audio[j]

\* chunks groups the sentences sents: each chunk is the space-joined text of
\* one or more consecutive sentences, and all sentences are used, in order
RECURSIVE GroupsSentences(_, _)
GroupsSentences(chunks, sents) ==
    IF chunks = <<>> THEN sents = <<>>
    ELSE \E k \in 1..Len(sents) :
            /\ Head(chunks) = JoinSpace(SubSeq(sents, 1, k))
            /\ GroupsSentences(Tail(chunks), SubSeq(sents, k + 1, Len(sents)))

NoOversizedSentence ==
    \A i \in 1..Len(TextSentences) : SentenceTokens[i] <= config.token_absolute_max

\* C26: when no sentence counts more than token_absolute_max, every returned
\* chunk is the space-joined text of one or more whole consecutive sentences,
\* merged-back chunks included, and no sentence is split or left out.
C26_SentenceAligned ==
    (Returned /\ NoOversizedSentence) => GroupsSentences(chunker.chunks, TextSentences)

\* a text of three sentences or more, none oversized, came back in at least
\* two chunks, one of them grown above token_target_max by a merge-back
C26_Witness ==
    /\ Returned
    /\ NoOversizedSentence
    /\ Len(TextSentences) >= 3
    /\ Len(chunker.chunks) >= 2
    /\ \E i \in 1..Len(chunker.chunks) :
          chunker.chunk_tokens[i] > config.token_target_max

\* the step that runs the end of _chunk_text_smart
TrailingStep == cpc = "loop" /\ cpc' = "done"

\* what the trailing rule makes of the emitted chunks
TrailingOutcome ==
    IF chunker.current_chunk = <<>> THEN chunker.chunks
    ELSE IF chunker.current_tokens >= 20 \/ chunker.chunks = <<>>
         THEN Append(chunker.chunks, JoinSpace(chunker.current_chunk))
         ELSE [chunker.chunks EXCEPT ![Len(chunker.chunks)] =
                   @ \o <<" ">> \o JoinSpace(chunker.current_chunk)]

\* C27: at the end of _chunk_text_smart the pending chunk becomes a chunk of
\* its own iff it counts at least 20 tokens or nothing was emitted before it;
\* otherwise it is appended, after one space, to the last emitted chunk.  The
\* threshold is 20 whatever token_target_min is.
C27_TrailingRule == [][TrailingStep => chunker'.chunks = TrailingOutcome]_vars

\* with token_target_min = 100, a trailing chunk of 20 to 99 tokens was
\* emitted on its own after an earlier chunk
C27_Witness ==
    /\ Returned
    /\ config.token_target_min = 100
    /\ Len(chunker.chunks) >= 2
    /\ chunker.current_chunk # <<>>
    /\ chunker.current_tokens >= 20 /\ chunker.current_tokens < 100
    /\ chunker.chunks[Len(chunker.chunks)] = JoinSpace(chunker.current_chunk)

\* a trailing chunk of fewer than 20 tokens was appended to the chunk before it
C27_WitnessMerged ==
    /\ Returned
    /\ chunker.current_chunk # <<>>
    /\ chunker.current_tokens < 20
    /\ chunker.chunks # <<>>
    /\ chunker.chunks[Len(chunker.chunks)] # JoinSpace(chunker.current_chunk)

\* C28: a generate call with a valid voice creates and invokes only the
\* pipeline of the voice's language (every KPipeline construction and every
\* G2P count of the call carries that language code) and leaves the cache
\* entries of the other languages as they were when the call was entered.
C28_CountsUseVoiceLanguage ==
    (GenEntered /\ GenValid) =>
        /\ \A i \in 1..Len(GenEvents) :
              GenEvents[i].op \in {"KPipeline", "g2p"} => GenEvents[i].lang = GenLang
        /\ pipelines \ {GenLang} = gen.at_call.pipelines \ {GenLang}

\* generate has raised for a text of the running batch
BatchItemFailed == call.op = "batch_generate" /\ gen.pc = "raised"

\* C29: when generate raises for the k-th text of a batch, the batch starts
\* no further text (every synthesis since the k-th call began is one of that
\* call's own, and nothing follows its failure), ends by raising
\* that same error with no path list, and the files on disk are those of
\* before the call plus the files of texts 1..k-1.
C29_BatchFailureStops ==
    BatchItemFailed =>
        /\ batch.pc \in {"waiting", "raised"}
        /\ gen.text = batch.texts[Len(batch.paths) + 1]
        /\ Cardinality({ i \in 1..Len(GenEvents) :
                            GenEvents[i].op \in {"synth", "synth_failed"} })
              = Len(gen.synth_calls)
        /\ files = call.files0 \cup { BatchFile(i) : i \in 1..Len(batch.paths) }
        /\ batch.pc = "raised" =>
              /\ ~batch.out.ok
              /\ batch.out.error = gen.out.error
              /\ batch.out.paths = <<>>

\* the second text of a batch failed in synthesis after the file of the first
\* had been written, and the batch has raised
C29_Witness ==
    /\ BatchItemFailed
    /\ batch.pc = "raised"
    /\ Len(batch.paths) = 1
    /\ Len(batch.texts) = 2
    /\ BatchFile(1) \in files
    /\ BatchFile(1) \notin call.files0
    /\ events[Len(events)].op = "synth_failed"

\* the audio a deterministic engine gives for the whole text in one
\* pipeline(...) call, sub-buffers concatenated
DirectAudio == Buffer(1, EngineSamples)

====
